---------------------------- MODULE Spec2Model ----------------------------
(***************************************************************************)
(* The centralized trip planner of planner_agent_centralized.py:           *)
(* PlannerAgentCentralized.process_request fans a request out to the       *)
(* flight, hotel and POI agents with asyncio.gather, combines the three    *)
(* responses into an itinerary and validates it against the request.       *)
(*                                                                         *)
(* Python values are modelled as follows.  A str is the sequence of its    *)
(* characters, a character being its digit value 0..9, Dash for "-" or     *)
(* Other for any other character.  None is a value different from every    *)
(* str.  A dict is a function whose DOMAIN is its key set, so a missing    *)
(* key is a key outside the DOMAIN.  A list is a sequence.                 *)
(***************************************************************************)
EXTENDS Integers, Sequences, FiniteSets, TLC

VARIABLES
    request,    \* the request dict handed to process_request (and to validate_itinerary)
    agents,     \* self.flight_agent / hotel_agent / poi_agent: which provider is wired in
    pc,         \* position of the process_request coroutine (or of the validate call)
    task,       \* state of the three provider tasks that gather runs
    resp,       \* the AgentResponse (or exception) each finished task holds
    order,      \* the providers in the order their tasks finished
    outer,      \* the future asyncio.gather returns
    itinerary,  \* local itinerary of process_request / argument of validate_itinerary
    vres,       \* what validate_itinerary did: returned (is_valid, msg) or raised
    outcome,    \* what process_request did: returned a mapping or raised
    run,        \* number of the current process_request call
    prev        \* the previous process_request call on the same inputs: its outcome
                \* and the order in which its provider tasks finished

vars == <<request, agents, pc, task, resp, order, outer, itinerary, vres, outcome, run, prev>>

----------------------------------------------------------------------------
(* Bounds of the model *)

\* the valid request dates are MaxSpan + 1 consecutive days from 2024-02-28 on
MaxSpan == 3
\* process_request is called at most MaxRuns times on the same inputs
MaxRuns == 2

----------------------------------------------------------------------------
(* Python str and None *)

Dash == 10
Other == 11
None == <<-1>>

IsDigit(c) == c \in 0..9

----------------------------------------------------------------------------
(* datetime: the proleptic Gregorian calendar (ordinal 1 is 0001-01-01) *)

IsLeap(y) == y % 4 = 0 /\ (y % 100 # 0 \/ y % 400 = 0)

DaysInMonth(y, m) ==
    IF m = 2 THEN (IF IsLeap(y) THEN 29 ELSE 28)
    ELSE IF m \in {4, 6, 9, 11} THEN 30 ELSE 31

DaysBeforeYear(y) ==
    (y - 1) * 365 + ((y - 1) \div 4) - ((y - 1) \div 100) + ((y - 1) \div 400)

RECURSIVE DaysBeforeMonth(_, _)
DaysBeforeMonth(y, m) ==
    IF m = 1 THEN 0 ELSE DaysBeforeMonth(y, m - 1) + DaysInMonth(y, m - 1)

\* date.toordinal()
Ymd2Ord(y, m, d) == DaysBeforeYear(y) + DaysBeforeMonth(y, m) + d

\* date.fromordinal(n), as <<year, month, day>>
Ord2Ymd(n) ==
    LET n0   == n - 1
        n400 == n0 \div 146097
        r400 == n0 % 146097
        n100 == r400 \div 36524
        r100 == r400 % 36524
        n4   == r100 \div 1461
        r4   == r100 % 1461
        n1   == r4 \div 365
        r1   == r4 % 365
        year == n400 * 400 + 1 + n100 * 100 + n4 * 4 + n1
    IN  IF n1 = 4 \/ n100 = 4 THEN <<year - 1, 12, 31>>
        ELSE
          LET leapyear == n1 = 3 /\ (n4 # 24 \/ n100 = 3)
              month0   == (r1 + 50) \div 32
              before(m) == DaysBeforeMonth(IF leapyear THEN 4 ELSE 1, m)
              month    == IF before(month0) > r1 THEN month0 - 1 ELSE month0
          IN  <<year, month, r1 - before(month) + 1>>

----------------------------------------------------------------------------
(* datetime.strptime(s, "%Y-%m-%d") and datetime.strftime("%Y-%m-%d") *)

Digits2(s, i) == s[i] * 10 + s[i + 1]

\* the alternatives of %m, 1[0-2]|0[1-9]|[1-9], tried in order at position i:
\* the <<length, value>> of the first one that matches and is followed by "-"
MatchMonth(s, i) ==
    LET two == /\ Len(s) >= i + 2
               /\ \/ s[i] = 1 /\ s[i + 1] \in 0..2
                  \/ s[i] = 0 /\ s[i + 1] \in 1..9
               /\ s[i + 2] = Dash
        one == /\ Len(s) >= i + 1
               /\ s[i] \in 1..9
               /\ s[i + 1] = Dash
    IN  IF two THEN <<2, Digits2(s, i)>>
        ELSE IF one THEN <<1, s[i]>>
        ELSE <<0, 0>>

\* the alternatives of %d, 3[0-1]|[1-2]\d|0[1-9]|[1-9], tried in order at
\* position i; it is the last directive, so the first alternative that matches wins
MatchDay(s, i) ==
    LET two == /\ Len(s) >= i + 1
               /\ \/ s[i] = 3 /\ s[i + 1] \in 0..1
                  \/ s[i] \in 1..2 /\ IsDigit(s[i + 1])
                  \/ s[i] = 0 /\ s[i + 1] \in 1..9
        one == Len(s) >= i /\ s[i] \in 1..9
    IN  IF two THEN <<2, Digits2(s, i)>>
        ELSE IF one THEN <<1, s[i]>>
        ELSE <<0, 0>>

\* strptime: [ok |-> TRUE, ord |-> the date's ordinal], or the exception raised
Strptime(s) ==
    IF s = None THEN [ok |-> FALSE, exc |-> "TypeError"]
    ELSE IF ~ (/\ Len(s) >= 5
               /\ \A i \in 1..4 : IsDigit(s[i])
               /\ s[5] = Dash)
    THEN [ok |-> FALSE, exc |-> "ValueError"]
    ELSE
      LET y  == s[1] * 1000 + s[2] * 100 + s[3] * 10 + s[4]
          mm == MatchMonth(s, 6)
          dp == 6 + mm[1] + 1
          dd == MatchDay(s, dp)
      IN  IF mm[1] = 0 \/ dd[1] = 0 THEN [ok |-> FALSE, exc |-> "ValueError"]
          \* unconverted data remains
          ELSE IF Len(s) # dp + dd[1] - 1 THEN [ok |-> FALSE, exc |-> "ValueError"]
          \* year 0 is out of range, day is out of range for month
          ELSE IF y < 1 \/ dd[2] > DaysInMonth(y, mm[2]) THEN [ok |-> FALSE, exc |-> "ValueError"]
          ELSE [ok |-> TRUE, ord |-> Ymd2Ord(y, mm[2], dd[2])]

\* strftime of the date with ordinal n (years 1000..9999)
Strftime(n) ==
    LET ymd == Ord2Ymd(n)
        y == ymd[1]
        m == ymd[2]
        d == ymd[3]
    IN  << y \div 1000, (y \div 100) % 10, (y \div 10) % 10, y % 10, Dash,
           m \div 10, m % 10, Dash, d \div 10, d % 10 >>

\* the str "YYYY-MM-DD" and the str "YYYY-M-D" written without leading zeros
Date(y, m, d) ==
    << y \div 1000, (y \div 100) % 10, (y \div 10) % 10, y % 10, Dash,
       m \div 10, m % 10, Dash, d \div 10, d % 10 >>

ShortDate(y, m, d) ==
    << y \div 1000, (y \div 100) % 10, (y \div 10) % 10, y % 10, Dash, m, Dash, d >>


----------------------------------------------------------------------------
(* dicts, exceptions and AgentResponse *)

\* dict.get(key, default)
Get(d, key, default) == IF key \in DOMAIN d THEN d[key] ELSE default

\* an exception object: its type and the provider identity it carries; the
\* built-in exceptions carry none
Exception(type) == [type |-> type, provider |-> ""]

NoException == Exception("")

\* AgentResponse(data, reasoning)
AgentResponse(data, reasoning) == [data |-> data, reasoning |-> reasoning]

\* how a call ends: it returns val or raises exc
Returns(val) == [ok |-> TRUE, val |-> val, exc |-> NoException]

Raises(exc) == [ok |-> FALSE, val |-> <<>>, exc |-> exc]

----------------------------------------------------------------------------
(* The reference providers *)

FlightAgent_process_request(req) ==
    LET flights == <<
            [ flight_number  |-> "TS123",
              departure_date |-> Get(req, "departure_date", Date(2024, 7, 1)),
              arrival_date   |-> Get(req, "departure_date", Date(2024, 7, 1)),
              origin         |-> Get(req, "origin", "JFK"),
              destination    |-> Get(req, "destination", "LAX") ],
            [ flight_number  |-> "TS124",
              departure_date |-> Get(req, "return_date", Date(2024, 7, 7)),
              arrival_date   |-> Get(req, "return_date", Date(2024, 7, 7)),
              origin         |-> Get(req, "destination", "LAX"),
              destination    |-> Get(req, "origin", "JFK") ] >>
    IN  Returns(AgentResponse(flights,
            "Selected flights based on earliest departure and latest return within requested dates."))

HotelAgent_process_request(req) ==
    LET hotels == <<
            [ name      |-> "Hotel Sunshine",
              check_in  |-> Get(req, "departure_date", Date(2024, 7, 1)),
              check_out |-> Get(req, "return_date", Date(2024, 7, 7)),
              location  |-> Get(req, "destination", "Los Angeles") ] >>
    IN  Returns(AgentResponse(hotels,
            "Booked hotel covering entire stay with best ratings and proximity to points of interest."))

poi_list ==
    << [name |-> "Hollywood Walk of Fame", category |-> "Sightseeing"],
       [name |-> "Santa Monica Pier",      category |-> "Leisure"],
       [name |-> "Griffith Observatory",   category |-> "Sightseeing"],
       [name |-> "Venice Beach",           category |-> "Leisure"] >>

\* POISchedules with the return day included: range(days + 1)
POISchedulesInclusive(dep_ord, days) ==
    [ k \in 1..(days + 1) |->
        [ date               |-> Strftime(dep_ord + (k - 1)),
          points_of_interest |-> << poi_list[((k - 1) % Len(poi_list)) + 1] >> ] ]

\* range(days): i = 0 .. days - 1, empty when days <= 0
POISchedules(dep_ord, days) ==
    [ k \in 1..days |->
        [ date               |-> Strftime(dep_ord + (k - 1)),
          points_of_interest |-> << poi_list[((k - 1) % Len(poi_list)) + 1] >> ] ]

POIAgent_process_request(req) ==
    LET dep      == Get(req, "departure_date", Date(2024, 7, 1))
        ret      == Get(req, "return_date", Date(2024, 7, 7))
        dep_date == Strptime(dep)
        ret_date == Strptime(ret)
    IN  IF ~ dep_date.ok THEN Raises(Exception(dep_date.exc))
        ELSE IF ~ ret_date.ok THEN Raises(Exception(ret_date.exc))
        ELSE Returns(AgentResponse(POISchedules(dep_date.ord, ret_date.ord - dep_date.ord),
                "Chose diverse attractions to balance sightseeing and leisure activities daily."))

----------------------------------------------------------------------------
(* Providers wired in behind self.flight_agent, self.hotel_agent and        *)
(* self.poi_agent: the reference provider, a provider that answers with a   *)
(* fixed response whatever the request, or a provider whose call fails.     *)

Children == << "flight_agent", "hotel_agent", "poi_agent" >>

Agents == { Children[i] : i \in 1..Len(Children) }

ProviderKinds == { "reference", "canned", "failing" }

\* the fixed responses: the flights and the two day schedules of the example
\* output, and a hotel that is left two days before the example's return date
CannedResponse(a) ==
    IF a = "flight_agent" THEN
        AgentResponse(
            << [ flight_number |-> "TS123", departure_date |-> Date(2024, 7, 1),
                 arrival_date |-> Date(2024, 7, 1), origin |-> "JFK", destination |-> "LAX" ],
               [ flight_number |-> "TS124", departure_date |-> Date(2024, 7, 7),
                 arrival_date |-> Date(2024, 7, 7), origin |-> "LAX", destination |-> "JFK" ] >>,
            "Found 2 flights from JFK to LAX.")
    ELSE IF a = "hotel_agent" THEN
        AgentResponse(
            << [ name |-> "Hotel Sunshine", check_in |-> Date(2024, 7, 1),
                 check_out |-> Date(2024, 7, 5), location |-> "Los Angeles" ] >>,
            "Searching for up to 5 hotels in Los Angeles.")
    ELSE
        AgentResponse(
            << [ date |-> Date(2024, 7, 1), points_of_interest |-> << poi_list[1] >> ],
               [ date |-> Date(2024, 7, 2), points_of_interest |-> << poi_list[2] >> ] >>,
            "Searched for POIs in location 'Los Angeles'.")

FailureOf(a) ==
    IF a = "flight_agent" THEN Exception("TimeoutError")
    ELSE IF a = "hotel_agent" THEN Exception("ConnectionError")
    ELSE Exception("RuntimeError")

\* self.<a>.process_request(request), run to completion
ProviderCall(a, kind, req) ==
    IF kind = "failing" THEN Raises(FailureOf(a))
    ELSE IF kind = "canned" THEN Returns(CannedResponse(a))
    ELSE IF a = "flight_agent" THEN FlightAgent_process_request(req)
    ELSE IF a = "hotel_agent" THEN HotelAgent_process_request(req)
    ELSE POIAgent_process_request(req)

----------------------------------------------------------------------------
(* PlannerAgentCentralized *)

\* what validate_itinerary did: st is "none" (not called), "returned" (with
\* the pair (valid, msg)) or "raised" (with exc); NoReason is the msg None
NoReason == "None"

NotValidated == [st |-> "none", valid |-> FALSE, msg |-> NoReason, exc |-> NoException]

VReturn(valid, msg) == [st |-> "returned", valid |-> valid, msg |-> msg, exc |-> NoException]

VRaise(type) == [st |-> "raised", valid |-> FALSE, msg |-> NoReason, exc |-> Exception(type)]

MsgMissing == "Missing flights, hotels, or daily schedules."

MsgHotel == "Hotel does not cover full trip dates."

MsgFlight == "Flight dates do not match requested trip dates."

MsgDays == "Daily schedules do not cover all days of the trip."

combine_results(flight_resp, hotel_resp, poi_resp) ==
    [ flights         |-> flight_resp.data,
      hotels          |-> hotel_resp.data,
      daily_schedules |-> poi_resp.data ]

validate_itinerary(itin, req) ==
    LET flights         == Get(itin, "flights", <<>>)
        hotels          == Get(itin, "hotels", <<>>)
        daily_schedules == Get(itin, "daily_schedules", <<>>)
        dep             == Get(req, "departure_date", None)
        ret             == Get(req, "return_date", None)
    IN  IF Len(flights) = 0 \/ Len(hotels) = 0 \/ Len(daily_schedules) = 0
        THEN VReturn(FALSE, MsgMissing)
        ELSE
          LET hotel == hotels[1]
              first == flights[1]
              last  == flights[Len(flights)]
          IN  IF "check_in" \notin DOMAIN hotel THEN VRaise("KeyError")
              ELSE IF hotel["check_in"] # dep THEN VReturn(FALSE, MsgHotel)
              ELSE IF "check_out" \notin DOMAIN hotel THEN VRaise("KeyError")
              ELSE IF hotel["check_out"] # ret THEN VReturn(FALSE, MsgHotel)
              ELSE IF "departure_date" \notin DOMAIN first THEN VRaise("KeyError")
              ELSE IF "departure_date" \notin DOMAIN last THEN VRaise("KeyError")
              ELSE IF first["departure_date"] # dep \/ last["departure_date"] # ret
                   THEN VReturn(FALSE, MsgFlight)
              ELSE
                LET dep_date == Strptime(dep)
                    ret_date == Strptime(ret)
                IN  IF ~ dep_date.ok THEN VRaise(dep_date.exc)
                    ELSE IF ~ ret_date.ok THEN VRaise(ret_date.exc)
                    ELSE IF Len(daily_schedules) # ret_date.ord - dep_date.ord
                         THEN VReturn(FALSE, MsgDays)
                    ELSE VReturn(TRUE, NoReason)

\* CollectReasoning with the hotel's and the POI provider's reasoning exchanged
CollectReasoningSwapped(flight_resp, hotel_resp, poi_resp) ==
    [ flight_agent |-> flight_resp.reasoning,
      hotel_agent  |-> poi_resp.reasoning,
      poi_agent    |-> hotel_resp.reasoning ]

\* the reasoning dict of process_request
CollectReasoning(flight_resp, hotel_resp, poi_resp) ==
    [ flight_agent |-> flight_resp.reasoning,
      hotel_agent  |-> hotel_resp.reasoning,
      poi_agent    |-> poi_resp.reasoning ]

\* ResultMapping that discards the itinerary when validation fails
ResultMappingDiscarding(itin, reasoning, v) ==
    IF ~ v.valid
    THEN [ success |-> FALSE,
           data |-> [flights |-> <<>>, hotels |-> <<>>, daily_schedules |-> <<>>],
           reasoning |-> reasoning, error |-> v.msg ]
    ELSE [ success |-> TRUE, data |-> itin, reasoning |-> reasoning ]

\* the dict process_request returns once validate_itinerary returned v
ResultMapping(itin, reasoning, v) ==
    IF ~ v.valid
    THEN [ success |-> FALSE, data |-> itin, reasoning |-> reasoning, error |-> v.msg ]
    ELSE [ success |-> TRUE, data |-> itin, reasoning |-> reasoning ]

\* what process_request did: kind is "none" (still running), "return" (with
\* the dict value) or "raise" (with exc)
NoOutcome == [kind |-> "none", value |-> <<>>, exc |-> NoException]

Returned(value) == [kind |-> "return", value |-> value, exc |-> NoException]

Raised(exc) == [kind |-> "raise", value |-> <<>>, exc |-> exc]

----------------------------------------------------------------------------
(* asyncio.gather(flight_task, hotel_task, poi_task), return_exceptions=False *)

Unfinished == [ok |-> FALSE, val |-> <<>>, exc |-> NoException]

Pending == [state |-> "pending", results |-> <<>>, exc |-> NoException]

\* GatherResults in the order in which the children finished
GatherResultsAsCompleted(ord, rs) == [ i \in 1..Len(ord) |-> rs[ord[i]].val ]

\* the results list: the children's results in the order of the arguments
GatherResults(ord, rs) == [ i \in 1..Len(Children) |-> rs[Children[i]].val ]

\* GatherDoneCallback that resolves the future with the first result
GatherFirstCompleted(out, r, nfinished, results) ==
    IF out.state # "pending" THEN out
    ELSE IF ~ r.ok THEN [state |-> "exception", results |-> <<>>, exc |-> r.exc]
    ELSE [state |-> "result", results |-> results, exc |-> NoException]

\* the done callback of a child that ended as r, the nfinished-th to finish
GatherDoneCallback(out, r, nfinished, results) ==
    IF out.state # "pending" THEN out
    ELSE IF ~ r.ok THEN [state |-> "exception", results |-> <<>>, exc |-> r.exc]
    ELSE IF nfinished = Len(Children) THEN [state |-> "result", results |-> results, exc |-> NoException]
    ELSE out

----------------------------------------------------------------------------
(* The inputs *)

WindowStart == Ymd2Ord(2024, 2, 28)

\* well-formed dates: a window of consecutive days over the leap day, and the
\* dates of the sample request
GoodDates ==
    { Strftime(WindowStart + k) : k \in 0..MaxSpan } \cup { Date(2024, 7, 1), Date(2024, 7, 7) }

\* "2024-3-1" (a date strptime accepts, not the str strftime writes),
\* "2024-02-30" (no such day) and "2024/02/28"
OddDates ==
    { ShortDate(2024, 3, 1), Date(2024, 2, 30),
      << 2, 0, 2, 4, Other, 0, 2, Other, 2, 8 >> }

\* the request dict with the given dates; None stands for a missing key
MkRequest(dep, ret) ==
    [ k \in {"origin", "destination"}
            \cup (IF dep = None THEN {} ELSE {"departure_date"})
            \cup (IF ret = None THEN {} ELSE {"return_date"}) |->
        CASE k = "origin" -> "JFK"
          [] k = "destination" -> "LAX"
          [] k = "departure_date" -> dep
          [] k = "return_date" -> ret ]

Requests ==
    { MkRequest(dep, ret) : dep \in GoodDates \cup OddDates \cup {None},
                            ret \in GoodDates \cup OddDates \cup {None} }

----------------------------------------------------------------------------
(* process_request *)

NoPrevious == [outcome |-> NoOutcome, order |-> <<>>]

Idle ==
    /\ task = [a \in Agents |-> "none"]
    /\ resp = [a \in Agents |-> Unfinished]
    /\ order = <<>>
    /\ outer = Pending
    /\ vres = NotValidated
    /\ outcome = NoOutcome

Init ==
    /\ request \in Requests
    /\ agents \in [Agents -> ProviderKinds]
    /\ pc = "start"
    /\ itinerary = <<>>
    /\ run = 1
    /\ prev = NoPrevious
    /\ Idle

\* lines 173-178: the three coroutines are created, gather wraps them in
\* tasks and process_request suspends on the future gather returns
Dispatch ==
    /\ pc = "start"
    /\ pc' = "awaiting"
    /\ task' = [a \in Agents |-> "pending"]
    /\ UNCHANGED <<request, agents, resp, order, outer, itinerary, vres, outcome, run, prev>>

\* the task of provider a runs to its end and gather's done callback runs
TaskFinish(a) ==
    /\ task[a] = "pending"
    /\ LET r == ProviderCall(a, agents[a], request)
       IN  /\ task' = [task EXCEPT ![a] = IF r.ok THEN "done" ELSE "failed"]
           /\ resp' = [resp EXCEPT ![a] = r]
           /\ order' = Append(order, a)
           /\ outer' = GatherDoneCallback(outer, r, Len(order'), GatherResults(order', resp'))
    /\ UNCHANGED <<request, agents, pc, itinerary, vres, outcome, run, prev>>

\* lines 176-206: the await ends; process_request raises the exception of
\* the gather future, or combines, validates and returns
Resume ==
    /\ pc = "awaiting"
    /\ outer.state # "pending"
    /\ IF outer.state = "exception"
       THEN /\ pc' = "raised"
            /\ outcome' = Raised(outer.exc)
            /\ UNCHANGED <<itinerary, vres>>
       ELSE LET flight_resp == outer.results[1]
                hotel_resp  == outer.results[2]
                poi_resp    == outer.results[3]
                itin        == combine_results(flight_resp, hotel_resp, poi_resp)
                reasoning   == CollectReasoning(flight_resp, hotel_resp, poi_resp)
                v           == validate_itinerary(itin, request)
            IN  /\ itinerary' = itin
                /\ vres' = v
                /\ IF v.st = "raised"
                   THEN pc' = "raised" /\ outcome' = Raised(v.exc)
                   ELSE pc' = "returned" /\ outcome' = Returned(ResultMapping(itin, reasoning, v))
    /\ UNCHANGED <<request, agents, task, resp, order, outer, run, prev>>

\* the caller, having got a result, calls process_request again with the
\* same request on the same planner (a caller like main does not survive an
\* exception of the call)
CallAgain ==
    /\ pc = "returned"
    /\ run < MaxRuns
    /\ run' = run + 1
    /\ prev' = [outcome |-> outcome, order |-> order]
    /\ pc' = "start"
    /\ itinerary' = <<>>
    /\ task' = [a \in Agents |-> "none"]
    /\ resp' = [a \in Agents |-> Unfinished]
    /\ order' = <<>>
    /\ outer' = Pending
    /\ vres' = NotValidated
    /\ outcome' = NoOutcome
    /\ UNCHANGED <<request, agents>>

Next ==
    \/ Dispatch
    \/ \E a \in Agents : TaskFinish(a)
    \/ Resume
    \/ CallAgain

Spec == Init /\ [][Next]_vars

----------------------------------------------------------------------------
(* validate_itinerary called on its own, on itineraries that need not come *)
(* from the reference providers                                            *)

\* at most MaxSchedules day schedules, at most MaxFlights flights
MaxSchedules == 3
MaxFlights == 2

\* "2024-02-28", "2024-03-01" (two days later) and "2024-02-30" (no such day)
ValidateDates == { Date(2024, 2, 28), Date(2024, 3, 1), Date(2024, 2, 30) }

\* a dict with the given fixed items and, for each key of opt that is not
\* None, that key too
MkRecord(fixed, opt) ==
    [ k \in DOMAIN fixed \cup { j \in DOMAIN opt : opt[j] # None } |->
        IF k \in DOMAIN fixed THEN fixed[k] ELSE opt[k] ]

HotelRecords ==
    { MkRecord([name |-> "Hotel Sunshine"], [check_in |-> ci, check_out |-> co]) :
        ci \in ValidateDates \cup {None}, co \in ValidateDates \cup {None} }

FlightRecords ==
    { MkRecord([flight_number |-> "TS123"], [departure_date |-> d]) :
        d \in ValidateDates \cup {None} }

SecondHotel == [name |-> "Grand Plaza Hotel", check_in |-> Date(2024, 3, 1), check_out |-> Date(2024, 3, 1)]

FlightLists == UNION { [1..n -> FlightRecords] : n \in 0..MaxFlights }

HotelLists == { <<>> } \cup { <<h>> : h \in HotelRecords } \cup { <<h, SecondHotel>> : h \in HotelRecords }

ScheduleLists == { POISchedules(WindowStart, n) : n \in 0..MaxSchedules }

\* the itineraries: all three keys present, or daily_schedules missing
Itineraries ==
    { [flights |-> f, hotels |-> h, daily_schedules |-> s] :
        f \in FlightLists, h \in HotelLists, s \in ScheduleLists }
    \cup { [flights |-> f, hotels |-> h] : f \in FlightLists, h \in HotelLists }

ValidateRequests ==
    { MkRequest(dep, ret) : dep \in ValidateDates \cup {None}, ret \in ValidateDates \cup {None} }

InitValidate ==
    /\ request \in ValidateRequests
    /\ itinerary \in Itineraries
    /\ agents = [a \in Agents |-> "reference"]
    /\ pc = "validate"
    /\ run = 1
    /\ prev = NoPrevious
    /\ Idle

ValidateCall ==
    /\ pc = "validate"
    /\ vres' = validate_itinerary(itinerary, request)
    /\ pc' = "validated"
    /\ UNCHANGED <<request, agents, task, resp, order, outer, itinerary, outcome, run, prev>>

NextValidate == ValidateCall

SpecValidate == InitValidate /\ [][NextValidate]_vars

----------------------------------------------------------------------------
(* Properties *)

Terminated == pc \in {"returned", "raised"}

Finished(a) == task[a] \in {"done", "failed"}

AllReference == \A a \in Agents : agents[a] = "reference"

\* C1: combine_results and validate_itinerary run, the gather future holds a
\* result and process_request returns only when all three provider tasks
\* have completed, whatever the order of their completions.
AggregationAfterAllProviders ==
    (outer.state = "result" \/ vres.st # "none" \/ pc = "returned")
        => \A a \in Agents : task[a] = "done"

\* a result was returned after the tasks finished in the order poi, hotel, flight
AggregatedAfterReverseOrder ==
    /\ pc = "returned"
    /\ order = << "poi_agent", "hotel_agent", "flight_agent" >>

\* C2: once a provider call has failed, process_request ends by raising a
\* ProviderFailure that carries the identity of a failed provider, and
\* returns no mapping.
ProviderFailureSurfaced ==
    (Terminated /\ \E a \in Agents : task[a] = "failed")
        => /\ outcome.kind = "raise"
           /\ outcome.exc.type = "ProviderFailure"
           /\ \E a \in Agents : task[a] = "failed" /\ outcome.exc.provider = a

\* C3: process_request neither returns nor raises while a provider task is
\* still running.
NoEarlyTermination ==
    Terminated => \A a \in Agents : Finished(a)

\* C4: the reasoning of every returned mapping has exactly the keys
\* flight_agent, hotel_agent and poi_agent, each with the reasoning of the
\* response of that provider's task.
ReasoningComplete ==
    pc = "returned"
        => /\ DOMAIN outcome.value.reasoning = Agents
           /\ \A a \in Agents : outcome.value.reasoning[a] = resp[a].val.reasoning

\* a mapping with success false was returned, two of the providers not the reference ones
ReasoningOfFailedValidation ==
    /\ pc = "returned"
    /\ ~ outcome.value.success
    /\ agents = [flight_agent |-> "canned", hotel_agent |-> "reference", poi_agent |-> "canned"]

\* the checks of validate_itinerary, in their order
CheckNonEmpty(itin) ==
    /\ Len(Get(itin, "flights", <<>>)) > 0
    /\ Len(Get(itin, "hotels", <<>>)) > 0
    /\ Len(Get(itin, "daily_schedules", <<>>)) > 0

CheckHotel(itin, req) ==
    /\ Get(itin.hotels[1], "check_in", None) = Get(req, "departure_date", None)
    /\ Get(itin.hotels[1], "check_out", None) = Get(req, "return_date", None)

CheckFlights(itin, req) ==
    /\ Get(itin.flights[1], "departure_date", None) = Get(req, "departure_date", None)
    /\ Get(itin.flights[Len(itin.flights)], "departure_date", None) = Get(req, "return_date", None)

CheckDays(itin, req) ==
    LET dep_date == Strptime(Get(req, "departure_date", None))
        ret_date == Strptime(Get(req, "return_date", None))
    IN  /\ dep_date.ok
        /\ ret_date.ok
        /\ Len(itin.daily_schedules) = ret_date.ord - dep_date.ord

EarliestFailure(itin, req) ==
    IF ~ CheckNonEmpty(itin) THEN VReturn(FALSE, MsgMissing)
    ELSE IF ~ CheckHotel(itin, req) THEN VReturn(FALSE, MsgHotel)
    ELSE IF ~ CheckFlights(itin, req) THEN VReturn(FALSE, MsgFlight)
    ELSE IF ~ CheckDays(itin, req) THEN VReturn(FALSE, MsgDays)
    ELSE VReturn(TRUE, NoReason)

\* C5: validate_itinerary returns the message of the earliest failing check
\* in the order non-emptiness, hotel coverage, flight alignment, day
\* coverage, and (true, none) exactly when no check fails.
EarliestFailingCheckReported ==
    pc = "validated" => vres = EarliestFailure(itinerary, request)

\* C6: validate_itinerary returns a (valid, reason) pair for every itinerary
\* and every request; it never raises.
ValidateIsTotal ==
    pc = "validated" => vres.st = "returned"

\* a request that lacks a date or whose return date is not after its departure date
RequestInvalid(req) ==
    \/ "departure_date" \notin DOMAIN req
    \/ "return_date" \notin DOMAIN req
    \/ /\ Strptime(req["departure_date"]).ok
       /\ Strptime(req["return_date"]).ok
       /\ Strptime(req["return_date"]).ord <= Strptime(req["departure_date"]).ord

\* C7: for a request that lacks departure_date or return_date, or whose
\* return_date is not strictly after its departure_date, no provider is
\* dispatched and process_request ends only by raising InvalidRequest.
InvalidRequestRejected ==
    RequestInvalid(request)
        => /\ \A a \in Agents : task[a] = "none"
           /\ pc # "start" => (pc = "raised" /\ outcome.exc.type = "InvalidRequest")

\* C8: the data of every returned mapping has exactly the fields flights,
\* hotels and daily_schedules, equal to the data of the flight, hotel and
\* POI responses; when success is false, error is the reason
\* validate_itinerary returned.
DataPreserved ==
    pc = "returned"
        => /\ DOMAIN outcome.value.data = {"flights", "hotels", "daily_schedules"}
           /\ outcome.value.data["flights"] = resp["flight_agent"].val.data
           /\ outcome.value.data["hotels"] = resp["hotel_agent"].val.data
           /\ outcome.value.data["daily_schedules"] = resp["poi_agent"].val.data
           /\ outcome.value.success = (vres.st = "returned" /\ vres.valid)
           /\ ~ outcome.value.success
                => /\ DOMAIN outcome.value = {"success", "data", "reasoning", "error"}
                   /\ outcome.value["error"] = vres.msg
                   /\ vres.msg \in {MsgMissing, MsgHotel, MsgFlight, MsgDays}

\* validation failed on the day count and all three collections were returned
PartialDataReturned ==
    /\ pc = "returned"
    /\ ~ outcome.value.success
    /\ outcome.value["error"] = MsgDays
    /\ Len(outcome.value.data["flights"]) = 2
    /\ Len(outcome.value.data["hotels"]) = 1
    /\ Len(outcome.value.data["daily_schedules"]) = 2

\* a request whose dates strptime accepts, the return date after the departure date
ValidTrip(req) ==
    /\ "departure_date" \in DOMAIN req
    /\ "return_date" \in DOMAIN req
    /\ Strptime(req["departure_date"]).ok
    /\ Strptime(req["return_date"]).ok
    /\ Strptime(req["return_date"]).ord > Strptime(req["departure_date"]).ord

TripDays(req) == Strptime(req["return_date"]).ord - Strptime(req["departure_date"]).ord

\* C9: for a request with valid dates, the return date after the departure
\* date, the reference POI provider answers with one schedule per day from
\* the departure date to the day before the return date, and process_request
\* with the three reference providers returns success true with 2 flights
\* (the first on the departure date, the last on the return date) and 1
\* hotel with the request's dates.
ReferenceTripPlanned ==
    ValidTrip(request)
        => /\ (agents["poi_agent"] = "reference" /\ Finished("poi_agent"))
                => /\ resp["poi_agent"].ok
                   /\ LET days == resp["poi_agent"].val.data
                      IN  /\ Len(days) = TripDays(request)
                          /\ \A k \in 1..Len(days) :
                                /\ Len(days[k].date) = 10
                                /\ Strptime(days[k].date).ok
                                /\ Strptime(days[k].date).ord
                                      = Strptime(request["departure_date"]).ord + (k - 1)
           /\ (AllReference /\ Terminated)
                => /\ outcome.kind = "return"
                   /\ outcome.value.success
                   /\ LET data == outcome.value.data
                      IN  /\ Len(data.flights) = 2
                          /\ data.flights[1].departure_date = request["departure_date"]
                          /\ data.flights[2].departure_date = request["return_date"]
                          /\ Len(data.hotels) = 1
                          /\ data.hotels[1].check_in = request["departure_date"]
                          /\ data.hotels[1].check_out = request["return_date"]
                          /\ Len(data.daily_schedules) = TripDays(request)

\* the sample request, 2024-07-01 to 2024-07-07, planned by the reference
\* providers: six day schedules, the last dated 2024-07-06
SampleTripPlanned ==
    /\ AllReference
    /\ request = MkRequest(Date(2024, 7, 1), Date(2024, 7, 7))
    /\ pc = "returned"
    /\ outcome.value.success
    /\ Len(outcome.value.data.daily_schedules) = 6
    /\ outcome.value.data.daily_schedules[6].date = Date(2024, 7, 6)

\* C10: a call of process_request that follows a call with the same request
\* and the same providers ends with the same mapping, whatever the order in
\* which the provider tasks of the two calls finished.
DeterministicResult ==
    (run > 1 /\ Terminated) => outcome = prev.outcome

\* the second call returned with success false and a non-empty itinerary, and
\* its provider tasks finished in another order than those of the first call
SameResultOtherOrder ==
    /\ run > 1
    /\ pc = "returned"
    /\ order # prev.order
    /\ ~ outcome.value.success
    /\ Len(outcome.value.data["flights"]) > 0

============================================================================
